---- MODULE Spec2Model ----
(***************************************************************************)
(* Model of package dataselect (dataselectquery.go): the package-level     *)
(* query singletons and presets, their initialisation, and the             *)
(* constructors NewMetricQuery, NewDataSelectQuery and NewSortQuery.       *)
(*                                                                         *)
(* Pointers are modelled explicitly: every object lives in a heap          *)
(* (a function from pointers to object values), package-level variables    *)
(* hold pointers, and a Go slice is a (array pointer, len, cap) triple     *)
(* over a heap of backing arrays, so that identity ("the NoSort singleton  *)
(* itself"), aliasing and in-place writes by append are all observable.    *)
(* NewSortQuery is modelled statement by statement, one program counter    *)
(* per caller, so that calls of several callers interleave.                *)
(***************************************************************************)
EXTENDS Integers, Sequences, FiniteSets, TLC

VARIABLES
    globals,            \* package-level variables: name -> pointer
    inited,             \* package-level variables already initialised
    paginationQueries,  \* heap of PaginationQuery objects
    metricQueries,      \* heap of MetricQuery objects
    sortQueries,        \* heap of SortQuery objects
    arrays,             \* heap of []SortBy backing arrays
    dataSelects,        \* heap of DataSelectQuery objects
    pc,                 \* per caller: position in the running function
    op,                 \* per caller: function being (or last) called
    sortByListRaw,      \* per caller: NewSortQuery's parameter
    callArg,            \* per caller: the token list as passed by the caller
    i,                  \* per caller: NewSortQuery's loop index
    ascending,          \* per caller: NewSortQuery's local "ascending"
    sortByList,         \* per caller: NewSortQuery's local slice
    ret,                \* per caller: value returned by the last call
    pagPc,              \* pagination stage: position
    pagItems,           \* pagination stage: the ordered input sequence
    pagQuery,           \* pagination stage: the PaginationQuery applied
    pagResult           \* pagination stage: [items, totalItems] returned

vars == <<globals, inited, paginationQueries, metricQueries, sortQueries,
          arrays, dataSelects, pc, op, sortByListRaw, callArg, i, ascending,
          sortByList, ret, pagPc, pagItems, pagQuery, pagResult>>

heapVars == <<paginationQueries, metricQueries, sortQueries, arrays, dataSelects>>
localVars == <<sortByListRaw, callArg, i, ascending, sortByList>>
pagVars == <<pagPc, pagItems, pagQuery, pagResult>>

----------------------------------------------------------------------------
(* Bounds of the model *)

MaxTokens == 4
ConcMaxTokens == 4
MaxItems == 3
MaxItemsPerPage == 3
MaxPage == 3

Procs == {1, 2}
SeqProcs == {1}
Pkg == 0

Tokens == {"a", "d", "name", "age"}
ConcDirections == {"a", "d", "name"}
ConcProperties == {"name", "age"}
ItemNames == {"x", "y"}

----------------------------------------------------------------------------
(* Values: pointers, string slices, SortBy slices *)

Ptr(kind, owner, n) == [kind |-> kind, owner |-> owner, n |-> n]
Nil == Ptr("nil", Pkg, 0)

\* The lowest address of the owner's region not in use in the heap.
Fresh(heap, kind, owner) ==
    LET used == {q.n : q \in {r \in DOMAIN heap : r.owner = owner}}
    IN  Ptr(kind, owner,
            CHOOSE n \in 0..Cardinality(used) :
                n \notin used /\ \A m \in 0..(n - 1) : m \in used)

\* The heap without the owner's objects, except those in keep.
Release(heap, owner, keep) ==
    [q \in {r \in DOMAIN heap : r.owner # owner \/ r \in keep} |-> heap[q]]

\* A []string (or metric.AggregationNames) value; nil is distinct from empty.
NilStrs == [isNil |-> TRUE, elems |-> <<>>]
Strs(s) == [isNil |-> FALSE, elems |-> s]

SeqsUpTo(S, n) == UNION {[1..k -> S] : k \in 0..n}
StrSlices(S, n) == {NilStrs} \cup {Strs(s) : s \in SeqsUpTo(S, n)}

RawInputs == StrSlices(Tokens, MaxTokens)

\* Token lists whose direction positions (Go's even indices) draw from dirs
\* and whose property positions draw from props.
PairLists(dirs, props, n) ==
    UNION {{s \in [1..k -> dirs \cup props] :
               \A j \in 1..k : s[j] \in (IF j % 2 = 1 THEN dirs ELSE props)} :
           k \in 0..n}

ConcInputs ==
    {NilStrs} \cup {Strs(s) : s \in PairLists(ConcDirections, ConcProperties, ConcMaxTokens)}

\* A []SortBy slice header; the nil slice has no array.
Slice(arr, len, cap) == [arr |-> arr, len |-> len, cap |-> cap]
NilSlice == Slice(Nil, 0, 0)

ZeroSortBy == [Property |-> "", Ascending |-> FALSE]
Zeros(n) == [k \in 1..n |-> ZeroSortBy]

\* The elements a slice shows, read through the heap of arrays.
ListOf(arrs, s) ==
    IF s.arr = Nil THEN <<>> ELSE SubSeq(arrs[s.arr], 1, s.len)

\* Capacities append may give a reallocated array holding `needed` elements:
\* "a new, sufficiently large underlying array".
NewCaps(needed) == needed..(2 * needed)

CpuUsage == "CpuUsage"
MemoryUsage == "MemoryUsage"
OnlySumAggregation == Strs(<<"SumAggregation">>)

----------------------------------------------------------------------------
(* Constructors *)

NewMetricQuery(metricNames, aggregations) ==
    [MetricNames |-> metricNames, Aggregations |-> aggregations]

\* Bug variant: the SortQuery field left out of the composite literal.
NewDataSelectQueryNoSortField(paginationQuery, sortQuery, graphQuery) ==
    [PaginationQuery |-> paginationQuery,
     SortQuery       |-> Nil,
     MetricQuery     |-> graphQuery]

NewDataSelectQuery(paginationQuery, sortQuery, graphQuery) ==
    [PaginationQuery |-> paginationQuery,
     SortQuery       |-> sortQuery,
     MetricQuery     |-> graphQuery]

NewPaginationQuery(itemsPerPage, page) ==
    [ItemsPerPage |-> itemsPerPage, Page |-> page]

----------------------------------------------------------------------------
(* Package initialisation: one variable per step, in Go's order (the first *)
(* variable in declaration order whose dependencies are initialised).      *)

DeclOrder == <<"NoPagination", "DefaultPagination",
               "NoMetrics", "StandardMetrics", "NoSort",
               "NoDataSelect", "StdMetricsDataSelect",
               "DefaultDataSelect", "DefaultDataSelectWithMetrics">>

GlobalNames == {DeclOrder[k] : k \in 1..Len(DeclOrder)}

PresetArgs ==
    [NoDataSelect                 |-> <<"NoPagination", "NoSort", "NoMetrics">>,
     StdMetricsDataSelect         |-> <<"NoPagination", "NoSort", "StandardMetrics">>,
     DefaultDataSelect            |-> <<"DefaultPagination", "NoSort", "NoMetrics">>,
     DefaultDataSelectWithMetrics |-> <<"DefaultPagination", "NoSort", "StandardMetrics">>]

PresetNames == DOMAIN PresetArgs

Deps(v) ==
    IF v \in PresetNames THEN {PresetArgs[v][k] : k \in 1..3} ELSE {}

Ready(v) == v \notin inited /\ Deps(v) \subseteq inited

PkgInitialised == inited = GlobalNames

NextToInit ==
    LET k == CHOOSE j \in 1..Len(DeclOrder) :
                 /\ Ready(DeclOrder[j])
                 /\ \A m \in 1..(j - 1) : ~Ready(DeclOrder[m])
    IN  DeclOrder[k]

DefaultItemsPerPage == 10

PaginationArgs ==
    [NoPagination      |-> NewPaginationQuery(0, 1),
     DefaultPagination |-> NewPaginationQuery(DefaultItemsPerPage, 1)]

MetricArgs ==
    [NoMetrics       |-> NewMetricQuery(NilStrs, NilStrs),
     StandardMetrics |-> NewMetricQuery(Strs(<<CpuUsage, MemoryUsage>>),
                                        OnlySumAggregation)]

InitPagination ==
    /\ ~PkgInitialised
    /\ NextToInit \in DOMAIN PaginationArgs
    /\ LET v == NextToInit
           q == Fresh(paginationQueries, "PaginationQuery", Pkg)
       IN  /\ paginationQueries' = paginationQueries @@ (q :> PaginationArgs[v])
           /\ globals' = [globals EXCEPT ![v] = q]
           /\ inited' = inited \cup {v}
    /\ UNCHANGED <<metricQueries, sortQueries, arrays, dataSelects>>
    /\ UNCHANGED <<pc, op, ret, localVars, pagVars>>

InitMetrics ==
    /\ ~PkgInitialised
    /\ NextToInit \in DOMAIN MetricArgs
    /\ LET v == NextToInit
           q == Fresh(metricQueries, "MetricQuery", Pkg)
       IN  /\ metricQueries' = metricQueries @@ (q :> MetricArgs[v])
           /\ globals' = [globals EXCEPT ![v] = q]
           /\ inited' = inited \cup {v}
    /\ UNCHANGED <<paginationQueries, sortQueries, arrays, dataSelects>>
    /\ UNCHANGED <<pc, op, ret, localVars, pagVars>>

InitNoSort ==
    /\ ~PkgInitialised
    /\ NextToInit = "NoSort"
    /\ LET a == Fresh(arrays, "array", Pkg)
           q == Fresh(sortQueries, "SortQuery", Pkg)
       IN  /\ arrays' = arrays @@ (a :> <<>>)
           /\ sortQueries' = sortQueries @@ (q :> [SortByList |-> Slice(a, 0, 0)])
           /\ globals' = [globals EXCEPT !["NoSort"] = q]
           /\ inited' = inited \cup {"NoSort"}
    /\ UNCHANGED <<paginationQueries, metricQueries, dataSelects>>
    /\ UNCHANGED <<pc, op, ret, localVars, pagVars>>

InitPreset ==
    /\ ~PkgInitialised
    /\ NextToInit \in PresetNames
    /\ LET v == NextToInit
           q == Fresh(dataSelects, "DataSelectQuery", Pkg)
           args == PresetArgs[v]
       IN  /\ dataSelects' = dataSelects @@
                  (q :> NewDataSelectQuery(globals[args[1]], globals[args[2]],
                                           globals[args[3]]))
           /\ globals' = [globals EXCEPT ![v] = q]
           /\ inited' = inited \cup {v}
    /\ UNCHANGED <<paginationQueries, metricQueries, sortQueries, arrays>>
    /\ UNCHANGED <<pc, op, ret, localVars, pagVars>>

PackageInit == InitPagination \/ InitMetrics \/ InitNoSort \/ InitPreset

----------------------------------------------------------------------------
(* Calls of the constructors by a caller p.  A caller is single-threaded;  *)
(* when it starts a call, the objects it owns that the call's arguments do *)
(* not reach are garbage and are collected.                                *)

Idle(p) == pc[p] = "idle"

ResetLocals(p) ==
    /\ i' = [i EXCEPT ![p] = 0]
    /\ ascending' = [ascending EXCEPT ![p] = FALSE]
    /\ sortByList' = [sortByList EXCEPT ![p] = NilSlice]

ClearArgs(p) ==
    /\ sortByListRaw' = [sortByListRaw EXCEPT ![p] = NilStrs]
    /\ callArg' = [callArg EXCEPT ![p] = NilStrs]

\* What a caller can pass for a pointer parameter: nil or any live object.
PtrArgs(heap) == {Nil} \cup DOMAIN heap

\* The caller drops the value the last call returned; what it reached is
\* garbage from then on.
Discard(p) ==
    /\ pc[p] = "done"
    /\ pc' = [pc EXCEPT ![p] = "idle"]
    /\ op' = [op EXCEPT ![p] = "none"]
    /\ ret' = [ret EXCEPT ![p] = Nil]
    /\ sortQueries' = Release(sortQueries, p, {})
    /\ arrays' = Release(arrays, p, {})
    /\ metricQueries' = Release(metricQueries, p, {})
    /\ dataSelects' = Release(dataSelects, p, {})
    /\ ResetLocals(p) /\ ClearArgs(p)
    /\ UNCHANGED <<globals, inited, paginationQueries, pagVars>>

NewMetricQueryCall(p) ==
    /\ PkgInitialised /\ Idle(p)
    /\ \E metricNames \in StrSlices({CpuUsage}, 1),
          aggregations \in {NilStrs, OnlySumAggregation} :
         LET heap == Release(metricQueries, p, {})
             q == Fresh(heap, "MetricQuery", p)
         IN  /\ metricQueries' = heap @@ (q :> NewMetricQuery(metricNames, aggregations))
             /\ ret' = [ret EXCEPT ![p] = q]
    /\ sortQueries' = Release(sortQueries, p, {})
    /\ arrays' = Release(arrays, p, {})
    /\ dataSelects' = Release(dataSelects, p, {})
    /\ pc' = [pc EXCEPT ![p] = "done"]
    /\ op' = [op EXCEPT ![p] = "NewMetricQuery"]
    /\ ResetLocals(p) /\ ClearArgs(p)
    /\ UNCHANGED <<globals, inited, paginationQueries, pagVars>>

NewDataSelectQueryCall(p) ==
    /\ PkgInitialised /\ pc[p] \in {"idle", "done"}
    /\ \E paginationQuery \in PtrArgs(paginationQueries),
          sortQuery \in PtrArgs(sortQueries),
          graphQuery \in PtrArgs(metricQueries) :
         LET heap == Release(dataSelects, p, {})
             q == Fresh(heap, "DataSelectQuery", p)
             arr == IF sortQuery = Nil THEN Nil
                    ELSE sortQueries[sortQuery].SortByList.arr
         IN  /\ dataSelects' = heap @@
                    (q :> NewDataSelectQuery(paginationQuery, sortQuery, graphQuery))
             /\ sortQueries' = Release(sortQueries, p, {sortQuery})
             /\ arrays' = Release(arrays, p, {arr})
             /\ metricQueries' = Release(metricQueries, p, {graphQuery})
             /\ ret' = [ret EXCEPT ![p] = q]
    /\ pc' = [pc EXCEPT ![p] = "done"]
    /\ op' = [op EXCEPT ![p] = "NewDataSelectQuery"]
    /\ ResetLocals(p) /\ ClearArgs(p)
    /\ UNCHANGED <<globals, inited, paginationQueries, pagVars>>

----------------------------------------------------------------------------
(* NewSortQuery, statement by statement *)

Length(raw) == Len(raw.elems)

\* raw[idx] with Go's 0-based index; callers check InRange first.
InRange(raw, idx) == ~raw.isNil /\ 0 <= idx /\ idx < Length(raw)
At(raw, idx) == raw.elems[idx + 1]

NewSortQueryCall(p, inputs) ==
    /\ PkgInitialised /\ Idle(p)
    /\ \E raw \in inputs :
         /\ sortByListRaw' = [sortByListRaw EXCEPT ![p] = raw]
         /\ callArg' = [callArg EXCEPT ![p] = raw]
    /\ sortQueries' = Release(sortQueries, p, {})
    /\ arrays' = Release(arrays, p, {})
    /\ metricQueries' = Release(metricQueries, p, {})
    /\ dataSelects' = Release(dataSelects, p, {})
    /\ pc' = [pc EXCEPT ![p] = "L100"]
    /\ op' = [op EXCEPT ![p] = "NewSortQuery"]
    /\ ret' = [ret EXCEPT ![p] = Nil]
    /\ ResetLocals(p)
    /\ UNCHANGED <<globals, inited, paginationQueries, pagVars>>

\* return q: the locals die, and the arrays of p that q does not reach are garbage.
Return(p, q, heap) ==
    /\ ret' = [ret EXCEPT ![p] = q]
    /\ pc' = [pc EXCEPT ![p] = "done"]
    /\ arrays' = Release(arrays, p,
                    IF q \in DOMAIN heap THEN {heap[q].SortByList.arr} ELSE {})
    /\ ResetLocals(p)

\* Bug variant: the odd-length test left out.
NilOnly(raw) == raw.isNil

\* Line 100: sortByListRaw == nil || len(sortByListRaw)%2 == 1
EmptyOrOdd(raw) == raw.isNil \/ Length(raw) % 2 = 1

L100(p) ==
    /\ pc[p] = "L100"
    /\ IF EmptyOrOdd(sortByListRaw[p])
       THEN /\ Return(p, globals["NoSort"], sortQueries)
            /\ UNCHANGED sortQueries
       ELSE /\ pc' = [pc EXCEPT ![p] = "L104"]
            /\ UNCHANGED <<ret, arrays, sortQueries, i, ascending, sortByList>>
    /\ UNCHANGED <<globals, inited, paginationQueries, metricQueries, dataSelects>>
    /\ UNCHANGED <<op, sortByListRaw, callArg, pagVars>>

\* Bug variant: the list built in a package-level scratch buffer,
\* sortByList := scratch[:0], instead of a list of the call's own.
L104Shared(p) ==
    /\ pc[p] = "L104"
    /\ LET a == Ptr("array", Pkg, 1)
       IN  /\ arrays' = IF a \in DOMAIN arrays THEN arrays
                         ELSE arrays @@ (a :> Zeros(2))
           /\ sortByList' = [sortByList EXCEPT ![p] = Slice(a, 0, 2)]
    /\ i' = [i EXCEPT ![p] = 0]
    /\ pc' = [pc EXCEPT ![p] = "L105"]
    /\ UNCHANGED <<globals, inited, paginationQueries, metricQueries, sortQueries,
                   dataSelects>>
    /\ UNCHANGED <<op, ret, sortByListRaw, callArg, ascending, pagVars>>

\* Line 104-105: sortByList := []SortBy{}; i := 0
L104(p) ==
    /\ pc[p] = "L104"
    /\ LET a == Fresh(arrays, "array", p)
       IN  /\ arrays' = arrays @@ (a :> <<>>)
           /\ sortByList' = [sortByList EXCEPT ![p] = Slice(a, 0, 0)]
    /\ i' = [i EXCEPT ![p] = 0]
    /\ pc' = [pc EXCEPT ![p] = "L105"]
    /\ UNCHANGED <<globals, inited, paginationQueries, metricQueries, sortQueries,
                   dataSelects>>
    /\ UNCHANGED <<op, ret, sortByListRaw, callArg, ascending, pagVars>>

\* Line 105: i+1 < len(sortByListRaw)
LoopCond(idx, raw) == idx + 1 < Length(raw)

L105(p) ==
    /\ pc[p] = "L105"
    /\ pc' = [pc EXCEPT ![p] =
                 IF LoopCond(i[p], sortByListRaw[p]) THEN "L108" ELSE "L127"]
    /\ UNCHANGED <<globals, inited, heapVars, op, ret, localVars, pagVars>>

\* Bug variant: every option other than "a" taken as descending.
ParseOrderLenient(orderOption) ==
    IF orderOption = "a" THEN "asc" ELSE "desc"

\* Lines 109-116: the order option parsed: "asc", "desc" or "invalid".
ParseOrder(orderOption) ==
    IF orderOption = "a" THEN "asc"
    ELSE IF orderOption = "d" THEN "desc"
    ELSE "invalid"

\* Bug variant: return nil for an invalid order option.
InvalidOrderNil == Nil

\* Line 115: what an invalid order option returns.
InvalidOrderResult == globals["NoSort"]

L108(p) ==
    /\ pc[p] = "L108"
    /\ IF ~InRange(sortByListRaw[p], i[p])
       THEN /\ pc' = [pc EXCEPT ![p] = "panic"]
            /\ UNCHANGED <<ret, arrays, i, ascending, sortByList>>
       ELSE LET order == ParseOrder(At(sortByListRaw[p], i[p]))
            IN  IF order = "invalid"
                THEN Return(p, InvalidOrderResult, sortQueries)
                ELSE /\ ascending' = [ascending EXCEPT ![p] = (order = "asc")]
                     /\ pc' = [pc EXCEPT ![p] = "L119"]
                     /\ UNCHANGED <<ret, arrays, i, sortByList>>
    /\ UNCHANGED <<globals, inited, paginationQueries, metricQueries, sortQueries,
                   dataSelects>>
    /\ UNCHANGED <<op, sortByListRaw, callArg, pagVars>>

\* Bug variant: the property read at the order option's index.
MakeSortByOffByOne(raw, idx, asc) ==
    [Property |-> At(raw, idx), Ascending |-> asc]

\* Lines 119-123: the SortBy built from the pair at idx.
MakeSortBy(raw, idx, asc) ==
    [Property |-> At(raw, idx + 1), Ascending |-> asc]

\* Bug variant: the index never advanced.
NextIndexStuck(idx) == idx

\* Line 105, post statement: i += 2
NextIndex(idx) == idx + 2

\* Line 125: sortByList = append(sortByList, sortBy), on behalf of p.
\* With room in the array the element is written in place; otherwise a new
\* array of some sufficient capacity is allocated and the elements copied.
AppendSortBy(p, s, x) ==
    IF s.len < s.cap
    THEN /\ arrays' = [arrays EXCEPT ![s.arr][s.len + 1] = x]
         /\ sortByList' = [sortByList EXCEPT ![p] = Slice(s.arr, s.len + 1, s.cap)]
    ELSE \E c \in NewCaps(s.len + 1) :
           LET a == Fresh(arrays, "array", p)
           IN  /\ arrays' = arrays @@
                      (a :> ListOf(arrays, s) \o <<x>> \o Zeros(c - s.len - 1))
               /\ sortByList' = [sortByList EXCEPT ![p] = Slice(a, s.len + 1, c)]

L119(p) ==
    /\ pc[p] = "L119"
    /\ IF ~InRange(sortByListRaw[p], i[p] + 1)
       THEN /\ pc' = [pc EXCEPT ![p] = "panic"]
            /\ UNCHANGED <<arrays, i, sortByList>>
       ELSE /\ AppendSortBy(p, sortByList[p],
                            MakeSortBy(sortByListRaw[p], i[p], ascending[p]))
            /\ i' = [i EXCEPT ![p] = NextIndex(i[p])]
            /\ pc' = [pc EXCEPT ![p] = "L105"]
    /\ UNCHANGED <<globals, inited, paginationQueries, metricQueries, sortQueries,
                   dataSelects>>
    /\ UNCHANGED <<op, ret, sortByListRaw, callArg, ascending, pagVars>>

\* Bug variant: the singleton reused for the result,
\* NoSort.SortByList = sortByList; return NoSort.
L127Reuse(p) ==
    /\ pc[p] = "L127"
    /\ LET q == globals["NoSort"]
           heap == [sortQueries EXCEPT ![q] = [SortByList |-> sortByList[p]]]
       IN  /\ sortQueries' = heap
           /\ Return(p, q, heap)
    /\ UNCHANGED <<globals, inited, paginationQueries, metricQueries, dataSelects>>
    /\ UNCHANGED <<op, sortByListRaw, callArg, pagVars>>

\* Lines 127-129: return &SortQuery{SortByList: sortByList}
L127(p) ==
    /\ pc[p] = "L127"
    /\ LET q == Fresh(sortQueries, "SortQuery", p)
           heap == sortQueries @@ (q :> [SortByList |-> sortByList[p]])
       IN  /\ sortQueries' = heap
           /\ Return(p, q, heap)
    /\ UNCHANGED <<globals, inited, paginationQueries, metricQueries, dataSelects>>
    /\ UNCHANGED <<op, sortByListRaw, callArg, pagVars>>

\* A statement of a running call.
NewSortQueryBody(p) ==
    \/ L100(p)
    \/ L104(p)
    \/ L105(p)
    \/ L108(p)
    \/ L119(p)
    \/ L127(p)

NewSortQuery(p, inputs) ==
    \/ NewSortQueryCall(p, inputs)
    \/ NewSortQueryBody(p)

----------------------------------------------------------------------------
(* Pagination stage: its code is not in dataselectquery.go; modelled from  *)
(* the design's contract for the stage.                                    *)

Min(a, b) == IF a < b THEN a ELSE b

\* Bug variant: the total counted after slicing.
PaginateCountAfter(items, pq) ==
    LET startIndex == (pq.Page - 1) * pq.ItemsPerPage
        endIndex == Min(startIndex + pq.ItemsPerPage, Len(items))
        page == IF pq.ItemsPerPage = 0 THEN items
                ELSE IF startIndex >= Len(items) THEN <<>>
                ELSE SubSeq(items, startIndex + 1, endIndex)
    IN  [items |-> page, totalItems |-> Len(page)]

Paginate(items, pq) ==
    LET totalItems == Len(items)
        startIndex == (pq.Page - 1) * pq.ItemsPerPage
        endIndex == Min(startIndex + pq.ItemsPerPage, totalItems)
    IN  IF pq.ItemsPerPage = 0
        THEN [items |-> items, totalItems |-> totalItems]
        ELSE IF startIndex >= totalItems
        THEN [items |-> <<>>, totalItems |-> totalItems]
        ELSE [items |-> SubSeq(items, startIndex + 1, endIndex),
              totalItems |-> totalItems]

PaginationInputs ==
    {NewPaginationQuery(n, k) : n \in 0..MaxItemsPerPage, k \in 1..MaxPage}
        \cup {paginationQueries[q] : q \in DOMAIN paginationQueries}

PaginateCall ==
    /\ PkgInitialised
    /\ pagPc \in {"idle", "done"}
    /\ pagItems' \in SeqsUpTo(ItemNames, MaxItems)
    /\ pagQuery' \in PaginationInputs
    /\ pagPc' = "called"
    /\ pagResult' = [items |-> <<>>, totalItems |-> 0]
    /\ UNCHANGED <<globals, inited, heapVars, pc, op, ret, localVars>>

PaginateReturn ==
    /\ pagPc = "called"
    /\ pagResult' = Paginate(pagItems, pagQuery)
    /\ pagPc' = "done"
    /\ UNCHANGED <<pagItems, pagQuery>>
    /\ UNCHANGED <<globals, inited, heapVars, pc, op, ret, localVars>>

----------------------------------------------------------------------------
(* Specifications *)

Init ==
    /\ globals = [v \in GlobalNames |-> Nil]
    /\ inited = {}
    /\ paginationQueries = <<>>
    /\ metricQueries = <<>>
    /\ sortQueries = <<>>
    /\ arrays = <<>>
    /\ dataSelects = <<>>
    /\ pc = [p \in Procs |-> "idle"]
    /\ op = [p \in Procs |-> "none"]
    /\ sortByListRaw = [p \in Procs |-> NilStrs]
    /\ callArg = [p \in Procs |-> NilStrs]
    /\ i = [p \in Procs |-> 0]
    /\ ascending = [p \in Procs |-> FALSE]
    /\ sortByList = [p \in Procs |-> NilSlice]
    /\ ret = [p \in Procs |-> Nil]
    /\ pagPc = "idle"
    /\ pagItems = <<>>
    /\ pagQuery = NewPaginationQuery(0, 1)
    /\ pagResult = [items |-> <<>>, totalItems |-> 0]

\* One caller using the three constructors, one call at a time.
Next ==
    \/ PackageInit
    \/ \E p \in SeqProcs :
          \/ NewSortQuery(p, RawInputs)
          \/ NewMetricQueryCall(p)
          \/ NewDataSelectQueryCall(p)
          \/ Discard(p)

Spec == Init /\ [][Next]_vars

\* A running call keeps executing: its next statement is eventually taken.
FairSpec == Spec /\ \A p \in SeqProcs : WF_vars(NewSortQueryBody(p))

\* Several callers of NewSortQuery, their statements interleaved.
NextConc ==
    \/ PackageInit
    \/ \E p \in Procs : NewSortQuery(p, ConcInputs) \/ Discard(p)

ConcSpec == Init /\ [][NextConc]_vars

\* The pagination stage applied to sequences and queries of every shape.
NextPage == PackageInit \/ PaginateCall \/ PaginateReturn

PageSpec == Init /\ [][NextPage]_vars

----------------------------------------------------------------------------
(* Properties *)

\* Caller p holds the value a completed NewSortQuery call returned.
Returned(p) == pc[p] = "done" /\ op[p] = "NewSortQuery"

InCall(p) == op[p] = "NewSortQuery" /\ pc[p] \in {"L105", "L108", "L119", "L127"}

NoSortPtr == globals["NoSort"]

\* The objects a pointer reaches in a heap: none when it dangles or is nil.
Lookup(heap, q) == {heap[r] : r \in DOMAIN heap \cap {q}}

\* The entries of the SortQuery q points to.
Entries(q) == ListOf(arrays, sortQueries[q].SortByList)

NoSortIsEmpty ==
    /\ NoSortPtr \in DOMAIN sortQueries
    /\ sortQueries[NoSortPtr].SortByList.len = 0
    /\ Entries(NoSortPtr) = <<>>

Directions == {"a", "d"}

\* Every token at an even (0-based) index of an even-length list is "a" or "d".
WellFormed(raw) ==
    /\ ~raw.isNil
    /\ Length(raw) % 2 = 0
    /\ \A k \in 0..(Length(raw) \div 2 - 1) : At(raw, 2 * k) \in Directions

\* Some token at an even (0-based) index of an even-length list is neither.
BadDirection(raw) ==
    /\ ~raw.isNil
    /\ Length(raw) % 2 = 0
    /\ \E k \in 0..(Length(raw) \div 2 - 1) : At(raw, 2 * k) \notin Directions

\* The first n pairs of raw read as (property, ascending) entries.
PairsOf(raw, n) ==
    [k \in 1..n |-> [Property  |-> At(raw, 2 * (k - 1) + 1),
                     Ascending |-> (At(raw, 2 * (k - 1)) = "a")]]

\* C1: NewSortQuery called with a nil token list or one of odd length
\* returns the NoSort singleton itself, whose SortByList is empty.
C1_NilOrOddIsNoSort ==
    \A p \in Procs :
        (Returned(p) /\ (callArg[p].isNil \/ Length(callArg[p]) % 2 = 1))
            => (ret[p] = NoSortPtr /\ NoSortIsEmpty)

C1_Witness ==
    \E p \in Procs :
        /\ Returned(p)
        /\ callArg[p] = Strs(<<"a", "name", "d">>)
        /\ ret[p] = NoSortPtr

\* C2: for a non-nil list of even length 2n whose direction tokens are all
\* "a" or "d", the result has exactly n entries, entry k being
\* (raw[2k+1] verbatim, raw[2k] = "a"), in token-pair order.
C2_WellFormedParsedInOrder ==
    \A p \in Procs :
        (Returned(p) /\ WellFormed(callArg[p]))
            => /\ ret[p] \in DOMAIN sortQueries
               /\ sortQueries[ret[p]].SortByList.len = Length(callArg[p]) \div 2
               /\ Entries(ret[p]) = PairsOf(callArg[p], Length(callArg[p]) \div 2)

C2_Witness ==
    \E p \in Procs :
        /\ Returned(p)
        /\ callArg[p] = Strs(<<"a", "name", "d", "age">>)
        /\ ret[p] \in DOMAIN sortQueries
        /\ Entries(ret[p]) = <<[Property |-> "name", Ascending |-> TRUE],
                               [Property |-> "age", Ascending |-> FALSE]>>

\* C3: a direction token that is neither "a" nor "d", at whichever pair of an
\* even-length list, makes NewSortQuery return the NoSort singleton with an
\* empty SortByList: the pairs parsed before it are not in the result.
C3_BadDirectionIsNoSort ==
    \A p \in Procs :
        (Returned(p) /\ BadDirection(callArg[p]))
            => (ret[p] = NoSortPtr /\ NoSortIsEmpty)

C3_Witness ==
    \E p \in Procs :
        /\ Returned(p)
        /\ callArg[p] = Strs(<<"a", "name", "name", "age">>)
        /\ ret[p] = NoSortPtr

\* C4: NewSortQuery never aborts and always returns a non-nil SortQuery with
\* a non-nil SortByList, which is either the NoSort singleton or a query of
\* len(raw)/2 entries.
C4_Total ==
    \A p \in Procs :
        /\ pc[p] # "panic"
        /\ Returned(p)
              => /\ ret[p] # Nil
                 /\ ret[p] \in DOMAIN sortQueries
                 /\ sortQueries[ret[p]].SortByList.arr \in DOMAIN arrays
                 /\ \/ ret[p] = NoSortPtr
                    \/ sortQueries[ret[p]].SortByList.len
                           = Length(callArg[p]) \div 2

C4_Witness ==
    \E p \in Procs :
        /\ Returned(p)
        /\ Length(callArg[p]) = 4
        /\ ret[p] \in DOMAIN sortQueries
        /\ ret[p] # NoSortPtr
        /\ sortQueries[ret[p]].SortByList.len = 2

\* The preset held by package variable v is composed of the objects held by
\* the package variables pv, sv and mv, none of them nil.
ComposedOf(v, pv, sv, mv) ==
    /\ globals[v] \in DOMAIN dataSelects
    /\ LET d == dataSelects[globals[v]]
       IN  /\ d.PaginationQuery = globals[pv]
           /\ d.PaginationQuery \in DOMAIN paginationQueries
           /\ d.SortQuery = globals[sv]
           /\ d.SortQuery \in DOMAIN sortQueries
           /\ d.MetricQuery = globals[mv]
           /\ d.MetricQuery \in DOMAIN metricQueries

\* C5: after package initialisation the four presets are composed as
\* documented of non-nil sub-queries, all share the one NoSort object with an
\* empty SortByList, NoMetrics names no metric, and StandardMetrics names
\* exactly cpu usage and memory usage with the only-sum aggregation.
C5_Presets ==
    PkgInitialised =>
        /\ ComposedOf("NoDataSelect", "NoPagination", "NoSort", "NoMetrics")
        /\ ComposedOf("StdMetricsDataSelect", "NoPagination", "NoSort",
                      "StandardMetrics")
        /\ ComposedOf("DefaultDataSelect", "DefaultPagination", "NoSort",
                      "NoMetrics")
        /\ ComposedOf("DefaultDataSelectWithMetrics", "DefaultPagination",
                      "NoSort", "StandardMetrics")
        /\ NoSortIsEmpty
        /\ globals["NoMetrics"] # globals["StandardMetrics"]
        /\ globals["NoPagination"] # globals["DefaultPagination"]
        /\ Len(metricQueries[globals["NoMetrics"]].MetricNames.elems) = 0
        /\ metricQueries[globals["StandardMetrics"]]
               = [MetricNames  |-> Strs(<<CpuUsage, MemoryUsage>>),
                  Aggregations |-> OnlySumAggregation]

C5_Witness ==
    /\ PkgInitialised
    /\ \A v \in GlobalNames : globals[v] # Nil
    /\ \A p \in Procs : pc[p] = "idle" /\ op[p] = "none"

\* What the package variables hold and what the singletons they point to
\* contain.
SingletonState ==
    [vars       |-> globals,
     noSort     |-> Lookup(sortQueries, NoSortPtr),
     noSortList |-> {Lookup(arrays, q.SortByList.arr) :
                        q \in Lookup(sortQueries, NoSortPtr)},
     metrics    |-> [v \in {"NoMetrics", "StandardMetrics"} |->
                        Lookup(metricQueries, globals[v])],
     pagination |-> [v \in {"NoPagination", "DefaultPagination"} |->
                        Lookup(paginationQueries, globals[v])],
     presets    |-> [v \in PresetNames |-> Lookup(dataSelects, globals[v])]]

\* No list a caller builds or was returned shares NoSort's array.
NoSortNotAliased ==
    \A q \in Lookup(sortQueries, NoSortPtr) :
        /\ \A p \in Procs : sortByList[p].arr # q.SortByList.arr
        /\ \A r \in DOMAIN sortQueries :
              r # NoSortPtr => sortQueries[r].SortByList.arr # q.SortByList.arr

\* C6: once the package is initialised, no step of NewSortQuery,
\* NewMetricQuery or NewDataSelectQuery changes a singleton or a preset:
\* NoSort.SortByList stays empty, and the list NewSortQuery builds never
\* aliases it.
C6_SingletonsNeverMutated ==
    [][PkgInitialised =>
          /\ SingletonState' = SingletonState
          /\ NoSortIsEmpty'
          /\ NoSortNotAliased']_vars

C6_Witness ==
    \E p \in Procs :
        /\ pc[p] = "done"
        /\ op[p] = "NewDataSelectQuery"
        /\ ret[p] \in DOMAIN dataSelects
        /\ dataSelects[ret[p]].SortQuery \in DOMAIN sortQueries
        /\ dataSelects[ret[p]].SortQuery # NoSortPtr
        /\ sortQueries[dataSelects[ret[p]].SortQuery].SortByList.len = 2
        /\ dataSelects[ret[p]].MetricQuery = globals["StandardMetrics"]
        /\ NoSortIsEmpty

\* The pointer value a call on raw returns when run alone is the singleton.
AloneIsNoSort(raw) == ~WellFormed(raw)

\* C7: with the statements of several NewSortQuery calls interleaved, each
\* call returns what it returns alone, and the list a call is building holds
\* exactly the pairs that call has parsed, in an array no other call, no
\* returned query and not NoSort refers to.
C7_CallsIsolated ==
    \A p \in Procs :
        /\ Returned(p) =>
              /\ ret[p] \in DOMAIN sortQueries
              /\ IF AloneIsNoSort(callArg[p])
                 THEN ret[p] = NoSortPtr /\ NoSortIsEmpty
                 ELSE /\ ret[p] # NoSortPtr
                      /\ ret[p].owner = p
                      /\ Entries(ret[p])
                            = PairsOf(callArg[p], Length(callArg[p]) \div 2)
        /\ InCall(p) =>
              /\ sortByList[p].arr \in DOMAIN arrays
              /\ ListOf(arrays, sortByList[p])
                    = PairsOf(callArg[p], sortByList[p].len)
              /\ \A q \in Procs \ {p} : sortByList[q].arr # sortByList[p].arr
              /\ \A r \in DOMAIN sortQueries :
                    sortQueries[r].SortByList.arr # sortByList[p].arr

C7_Witness ==
    /\ pc[1] = "L119" /\ pc[2] = "L119"
    /\ callArg[1] # callArg[2]
    /\ sortByList[1].len = 1 /\ sortByList[2].len = 1
    /\ ListOf(arrays, sortByList[1]) # ListOf(arrays, sortByList[2])
    /\ ascending[1] # ascending[2]

\* C8: for a query with itemsPerPage > 0 and page >= 1 whose window starts
\* at or past the end, (page-1)*itemsPerPage >= totalItems, the page returned
\* is empty and totalItems is the length of the unpaginated sequence.
C8_OutOfRangePageIsEmpty ==
    (/\ pagPc = "done"
     /\ pagQuery.ItemsPerPage > 0
     /\ pagQuery.Page >= 1
     /\ (pagQuery.Page - 1) * pagQuery.ItemsPerPage >= Len(pagItems))
        => (pagResult.items = <<>> /\ pagResult.totalItems = Len(pagItems))

C8_Witness ==
    /\ pagPc = "done"
    /\ Len(pagItems) = 3
    /\ pagQuery = NewPaginationQuery(2, 3)
    /\ pagResult = [items |-> <<>>, totalItems |-> 3]

\* C9: for an empty, non-nil token list NewSortQuery returns the NoSort
\* singleton, as it does for a nil or an odd-length list.
C9_EmptyIsNoSort ==
    \A p \in Procs :
        (Returned(p) /\ ~callArg[p].isNil /\ Length(callArg[p]) = 0)
            => ret[p] = NoSortPtr

\* In a call, i is even and within the list, the iterations completed number
\* i/2, the loop body reads inside the list, and the parameter is unchanged.
C10_LoopInvariant ==
    \A p \in Procs :
        op[p] = "NewSortQuery" =>
            /\ pc[p] # "panic"
            /\ sortByListRaw[p] = callArg[p]
            /\ InCall(p) =>
                  /\ i[p] % 2 = 0
                  /\ 0 <= i[p] /\ i[p] <= Length(callArg[p])
                  /\ sortByList[p].len = i[p] \div 2
                  /\ sortByList[p].len <= Length(callArg[p]) \div 2
            /\ pc[p] \in {"L108", "L119"} =>
                  /\ 0 <= i[p]
                  /\ i[p] + 1 < Length(callArg[p])
            /\ pc[p] = "L127" => i[p] = Length(callArg[p])

\* C10: every started NewSortQuery call returns, its loop running at most
\* len(raw)/2 iterations (i is even and the iterations completed number i/2);
\* both indices an iteration reads, i and i+1, lie inside the list, and the
\* token list is left unchanged.
C10_LoopTerminates ==
    /\ []C10_LoopInvariant
    /\ \A p \in SeqProcs : (pc[p] = "L100") ~> Returned(p)

C10_Witness ==
    \E p \in Procs :
        /\ op[p] = "NewSortQuery"
        /\ pc[p] = "L119"
        /\ i[p] = 2
        /\ Length(callArg[p]) = 4
        /\ sortByList[p].len = 1

====
